---- MODULE Spec2Model ----
(***************************************************************************)
(* The pipeline of the news agent: the Aggregator (News._parse_feed,       *)
(* News._fetch_categories), the Ranker (News._score_items), the posting    *)
(* loop News._post_batch with the persisted processed set                  *)
(* (News._load_processed / News._save_processed) and the Poster outcome    *)
(* computed by Twitter.post_tweet, and the two loops that run the cycles:  *)
(* News.run and news_runner.py --loop.                                     *)
(***************************************************************************)
EXTENDS Integers, Sequences, FiniteSets, TLC

\* ------------------------------------------------------------------ bounds
MaxItems == 3       \* longest candidate list handed to _post_batch
MaxCap == 2         \* largest max_posts
StoreItems == 1     \* longest candidate list in the runs with kills and a reader
MaxCrashes == 1     \* process kills explored
ClockNow == 100     \* int(time.time()) when a 429 is handled

\* Fingerprints in their sort order (sorted() on the hex strings).
HidSeq == <<"h1", "h2", "h3", "h4", "h5">>

AllHids == {HidSeq[i] : i \in 1..Len(HidSeq)}

\* Fingerprints of the candidates of the open-ended runs.
Hids == {"h1", "h2", "h3"}

\* Fingerprints of the candidates in the runs with kills or a reader.
StoreHids == {"h1", "h2"}

\* Python's None for retry_after is the empty set, a value n is {n}.
None == {}

VARIABLES
    pc,             \* position of the process
    processed,      \* self.processed
    auto_post,      \* self.auto_post
    twitter,        \* self.twitter: "None" or "client"
    items,          \* argument items of the running _post_batch
    max_posts,      \* argument max_posts of the running _post_batch
    idx,            \* position of the for loop in items
    posted,         \* local posted
    outcome,        \* (ok, tweet_id, retry_after) last returned by post_tweet
    returned,       \* value returned by the last _post_batch, -1 when it raised
    file,           \* data/news_processed.json
    startProcessed, \* history: self.processed when the batch started
    calls,          \* history: Poster calls of the batch, with the platform's answer
    confirmed,      \* history: fingerprints the Poster confirmed as posted
    reposted,       \* history: fingerprints passed to the Poster after it confirmed them
    lastFlushed,    \* history: the set written by the last completed flush
    loaded,         \* history: the set returned by the last _load_processed
    tornCrash,      \* history: the process was killed inside write_text
    crashes,        \* history: number of process kills
    reader,         \* a second process: what its load returned, and history: the
                    \* last flushed set and the set being flushed at that moment
    fetchIn,        \* arguments of _fetch_categories and what each feed answers
    fetchOut,       \* what _fetch_categories returned
    rankIn,         \* argument of _score_items, and a second ordering of it
    rankOut,        \* what _score_items returned for each ordering
    cycle,          \* the running cycle: datetime.now() read at its start, and
                    \* history: whether it fetched the feeds
    mode,           \* the program that runs the loop: News.run or news_runner --loop
    env,            \* what the process finds: posting credentials, self.model
    quiet,          \* a call of is_quiet_hour: the window, the time, the result
    exitStatus      \* how the process of news_runner.py ended

vars == <<pc, processed, auto_post, twitter, items, max_posts, idx, posted,
          outcome, returned, file, startProcessed, calls, confirmed, reposted,
          lastFlushed, loaded, tornCrash, crashes, reader,
          fetchIn, fetchOut, rankIn, rankOut, cycle, mode, env, quiet,
          exitStatus>>

\* What the posting loop never touches.
pipeVars == <<fetchIn, fetchOut, rankIn, rankOut, cycle, mode, env, quiet,
              exitStatus>>

\* ------------------------------------------------------- the persisted file
\* The file is a token sequence: "[" fingerprints "]" is what json.dumps writes.
Sorted(S) == SelectSeq(HidSeq, LAMBDA h : h \in S)

JsonDumps(S) == <<"[">> \o Sorted(S) \o <<"]">>

Absent == [exists |-> FALSE, text |-> <<>>]

FileOf(text) == [exists |-> TRUE, text |-> text]

\* Path.read_text: raises on bytes that do not decode.
ReadText(f) ==
    IF \E i \in 1..Len(f.text) : f.text[i] = "BADBYTES"
    THEN [raised |-> TRUE, value |-> <<>>]
    ELSE [raised |-> FALSE, value |-> f.text]

IsJsonList(t) ==
    /\ Len(t) >= 2
    /\ t[1] = "["
    /\ t[Len(t)] = "]"
    /\ \A i \in 2..(Len(t) - 1) : t[i] \in AllHids

\* set(json.loads(text)): JSONDecodeError on malformed text, TypeError on a
\* JSON value that is not iterable (null).
SetOfJson(t) ==
    IF IsJsonList(t)
    THEN [raised |-> FALSE, value |-> {t[i] : i \in 2..(Len(t) - 1)}]
    ELSE [raised |-> TRUE, value |-> {}]

\* The body of the try block of _load_processed.
TryLoad(f) ==
    LET r == ReadText(f)
    IN  IF r.raised THEN [raised |-> TRUE, value |-> {}] ELSE SetOfJson(r.value)

LoadProcessedNoCatch(f) ==
    IF f.exists THEN TryLoad(f) ELSE [raised |-> FALSE, value |-> {}]

LoadProcessed(f) ==
    IF f.exists
    THEN LET r == TryLoad(f)
         IN  IF r.raised THEN [raised |-> FALSE, value |-> {}] ELSE r
    ELSE [raised |-> FALSE, value |-> {}]

\* Files the process can find at start: none, one a flush wrote, or a broken one.
CorruptTexts == { <<>>, <<"[", "h1">>, <<"null">>, <<"BADBYTES">> }

\* Files left by an earlier run that ended with a completed flush.
CleanFiles == {Absent} \cup {FileOf(JsonDumps(S)) : S \in SUBSET StoreHids}

InitFiles ==
    {Absent} \cup {FileOf(JsonDumps(S)) : S \in SUBSET Hids}
             \cup {FileOf(t) : t \in CorruptTexts}

\* ------------------------------------------------------------- the Poster
\* What v2api.create_tweet does: returns, raises TooManyRequests (with or
\* without usable headers), or raises something else.
Responses ==
    { [status |-> "created", header |-> "none", value |-> 0],
      [status |-> "429", header |-> "retry-after", value |-> 60],
      [status |-> "429", header |-> "x-rate-limit-reset", value |-> 90],
      [status |-> "429", header |-> "none", value |-> 0],
      [status |-> "error", header |-> "none", value |-> 0] }

Max(a, b) == IF a >= b THEN a ELSE b

Min(a, b) == IF a <= b THEN a ELSE b

RetryAfterOf(resp) ==
    IF resp.header = "retry-after" THEN {resp.value}
    ELSE IF resp.header = "x-rate-limit-reset" THEN {Max(0, resp.value - ClockNow)}
    ELSE None

\* Twitter.post_tweet: (ok, tweet_id, retry_after); tweet_id is only logged.
PostTweet(resp) ==
    IF resp.status = "created" THEN [ok |-> TRUE, retry_after |-> None]
    ELSE IF resp.status = "429" THEN [ok |-> FALSE, retry_after |-> RetryAfterOf(resp)]
    ELSE [ok |-> FALSE, retry_after |-> None]

NoOutcome == [ok |-> FALSE, retry_after |-> None]

\* ------------------------------------------------------------ _post_batch
ListsOver(H, n) == UNION {[1..k -> H] : k \in 0..n}

\* Ranked lists handed to _post_batch: the dedupe of _fetch_categories left
\* one article for each fingerprint.
CandidateLists ==
    {l \in ListsOver(Hids, MaxItems) : \A i, j \in 1..Len(l) : i # j => l[i] # l[j]}

\* Values of max_posts the callers pass.
Caps == 0..MaxCap

CapReachedOffByOne == posted > max_posts

\* A cap check that breaks one post early.
CapReachedEarly == posted + 1 >= max_posts

\* news.py:344  if posted >= max_posts: break
CapReached == posted >= max_posts

AlreadyProcessedUnchecked(h) == FALSE

\* A check against the processed set as it was when the batch started.
AlreadyProcessedAtStart(h) == h \in startProcessed

\* news.py:346  if a["hid"] in self.processed: continue
AlreadyProcessed(h) == h \in processed

StopsCycleIfTruthy(out) == out.retry_after \notin {None, {0}}

\* news.py:365  if retry_after is not None: ... break
StopsCycle(out) == out.retry_after # None

MarkFailedForgets(h) == processed

\* news.py:370  self.processed.add(a["hid"]) on a failure that is no rate limit
MarkFailed(h) == processed \cup {h}

\* news.py:353  self.processed.add(a["hid"]) in dry-run
MarkDryRun(h) == processed \cup {h}

InBody == pc = "loop" /\ idx <= Len(items) /\ ~CapReached

BatchInit(files) ==
    /\ pc = "boot"
    /\ file \in files
    /\ processed = {}
    /\ auto_post = TRUE
    /\ twitter = "None"
    /\ items = <<>>
    /\ max_posts = 0
    /\ idx = 1
    /\ posted = 0
    /\ outcome = NoOutcome
    /\ returned = -1
    /\ startProcessed = {}
    /\ calls = <<>>
    /\ confirmed = {}
    /\ reposted = {}
    /\ lastFlushed = LoadProcessed(file).value
    /\ loaded = {}
    /\ tornCrash = FALSE
    /\ crashes = 0
    /\ reader = [done |-> FALSE, view |-> {}, prior |-> {}, next |-> {}]

\* Nothing fetched, nothing ranked, no cycle started.
NoFetchIn == [cats |-> <<>>, max_total |-> 0, answers |-> <<>>]

NoFetchOut == [done |-> FALSE, raised |-> FALSE, value |-> <<>>]

NoRankIn == [items |-> <<>>, shuffled |-> <<>>]

NoRankOut == [done |-> FALSE, value |-> <<>>, other |-> <<>>]

NoCycle == [hhmm |-> 0, weekday |-> 0, fetched |-> FALSE, slept |-> -1]

\* Credentials for X are set, no model is given to News, the cap and the
\* interval are the usual ones.
DefaultEnv ==
    [credentials |-> TRUE, model |-> "None", max_per_update |-> MaxCap,
     update_interval |-> 600]

NoQuiet == [start |-> 0, end |-> 0, hhmm |-> 0, done |-> FALSE, result |-> FALSE]

NoExit == [done |-> FALSE, status |-> 0, logged |-> FALSE]

EnvIdle ==
    /\ env = DefaultEnv
    /\ quiet = NoQuiet
    /\ exitStatus = NoExit

PipeIdle ==
    /\ fetchIn = NoFetchIn
    /\ fetchOut = NoFetchOut
    /\ rankIn = NoRankIn
    /\ rankOut = NoRankOut
    /\ cycle = NoCycle
    /\ mode = "none"
    /\ EnvIdle

InitWith(files) == BatchInit(files) /\ PipeIdle

Init == InitWith(InitFiles)

InitStore == InitWith(CleanFiles)

InitFive == InitWith({Absent})

\* News.__init__: load the processed set, read NEWS_AUTO_POST, no Twitter client.
Construct ==
    /\ pc = "boot"
    /\ LET r == LoadProcessed(file)
       IN  IF r.raised
           THEN /\ pc' = "fatal"
                /\ UNCHANGED <<processed, loaded, auto_post>>
           ELSE /\ pc' = "idle"
                /\ processed' = r.value
                /\ loaded' = r.value
                /\ auto_post' \in BOOLEAN
    /\ twitter' = "None"
    /\ UNCHANGED <<items, max_posts, idx, posted, outcome, returned, file,
                   startProcessed, calls, confirmed, reposted, lastFlushed,
                   tornCrash, crashes, reader>>
    /\ UNCHANGED pipeVars

\* A caller at position from enters _post_batch(list, cap).
EnterAt(from, list, cap) ==
    /\ pc = from
    /\ items' = list
    /\ max_posts' = cap
    /\ idx' = 1
    /\ posted' = 0
    /\ pc' = "loop"
    /\ startProcessed' = processed
    /\ calls' = <<>>
    /\ outcome' = NoOutcome
    /\ returned' = -1
    /\ UNCHANGED <<processed, auto_post, twitter, file, confirmed, reposted,
                   lastFlushed, loaded, tornCrash, crashes, reader>>

\* A caller (News.run, run_once) enters _post_batch(list, cap).
Enter(list, cap) == EnterAt("idle", list, cap) /\ UNCHANGED pipeVars

StartBatch == \E list \in CandidateLists, cap \in Caps : Enter(list, cap)

\* The ranked list of the rate-limit scenario: five distinct candidates.
RankedFive == HidSeq

StartFive == Enter(RankedFive, Len(RankedFive))

StartShortBatch ==
    \E list \in ListsOver(StoreHids, StoreItems), cap \in Caps : Enter(list, cap)

\* The locals of _post_batch and the history of the batch end with the call.
DropLocals ==
    /\ items' = <<>>
    /\ max_posts' = 0
    /\ idx' = 1
    /\ posted' = 0
    /\ outcome' = NoOutcome
    /\ startProcessed' = {}
    /\ calls' = <<>>

\* The for loop ends and _post_batch returns without _save_processed.
LoopExitNoSave ==
    /\ pc = "loop"
    /\ (idx > Len(items) \/ CapReached)
    /\ pc' = "returned"
    /\ returned' = posted
    /\ UNCHANGED <<processed, auto_post, twitter, items, max_posts, idx, posted,
                   outcome, file, startProcessed, calls, confirmed, reposted,
                   lastFlushed, loaded, tornCrash, crashes, reader>>
    /\ UNCHANGED pipeVars

\* The for loop ends: list exhausted, or the cap check breaks.
LoopExit ==
    /\ pc = "loop"
    /\ (idx > Len(items) \/ CapReached)
    /\ pc' = "save"
    /\ UNCHANGED <<processed, auto_post, twitter, items, max_posts, idx, posted,
                   outcome, returned, file, startProcessed, calls, confirmed,
                   reposted, lastFlushed, loaded, tornCrash, crashes, reader>>
    /\ UNCHANGED pipeVars

SkipProcessed ==
    /\ InBody
    /\ AlreadyProcessed(items[idx])
    /\ idx' = idx + 1
    /\ UNCHANGED <<pc, processed, auto_post, twitter, items, max_posts, posted,
                   outcome, returned, file, startProcessed, calls, confirmed,
                   reposted, lastFlushed, loaded, tornCrash, crashes, reader>>
    /\ UNCHANGED pipeVars

\* ------------------------------------------------------------- the Composer
\* title, link and category of the candidates, as _parse_feed stored them.
ArticleOf(h) ==
    CASE h = "h1" -> [hid |-> h, title |-> "t1", link |-> "l1", category |-> "tech"]
      [] h = "h2" -> [hid |-> h, title |-> "t2", link |-> "l2", category |-> "ai"]
      [] h = "h3" -> [hid |-> h, title |-> "Chip surge", link |-> "l3", category |-> "world"]
      [] h = "h4" -> [hid |-> h, title |-> "CHIP surge!", link |-> "l4", category |-> "tech"]
      [] OTHER -> [hid |-> h, title |-> "btc etf", link |-> "l5", category |-> "crypto"]

\* self.model: None, an object without a query method (the OpenAI client of
\* news_runner.py, the Twitter client of __main__.py), or a model with query.
Models == {"None", "no_query", "query"}

\* What one call of self.model.query does: it raises, or it returns a value;
\* "NoneValue" stands for the object None.
QueryAnswers ==
    {[raises |-> TRUE, value |-> ""],
     [raises |-> FALSE, value |-> ""],
     [raises |-> FALSE, value |-> "  "],
     [raises |-> FALSE, value |-> "NoneValue"],
     [raises |-> FALSE, value |-> "A sentence."]}

\* No call of query is made.
NoAnswer == [raises |-> FALSE, value |-> ""]

AnswersOf(model) == IF model = "query" THEN QueryAnswers ELSE {NoAnswer}

\* str(value).strip().replace("\n", " ")
StrStripped(value) ==
    CASE value = "  " -> ""
      [] value = "NoneValue" -> "None"
      [] OTHER -> value

\* _llm_summarize without its try/except.
LlmSummarizeNoCatch(title, model, ans) ==
    IF model # "query" THEN [raised |-> FALSE, text |-> title]
    ELSE IF ans.raises THEN [raised |-> TRUE, text |-> ""]
    ELSE [raised |-> FALSE,
          text |-> IF StrStripped(ans.value) # "" THEN StrStripped(ans.value) ELSE title]

\* _llm_summarize: the title when there is no usable model, when query raises
\* and when the stripped text is empty.
LlmSummarize(title, model, ans) ==
    IF model # "query" THEN [raised |-> FALSE, text |-> title]
    ELSE IF ans.raises THEN [raised |-> FALSE, text |-> title]
    ELSE [raised |-> FALSE,
          text |-> IF StrStripped(ans.value) # "" THEN StrStripped(ans.value) ELSE title]

\* default_tags.get(a["category"], []), joined behind a blank
TagsOf(category) ==
    CASE category = "ai" -> " #AI"
      [] category = "tech" -> " #tech"
      [] category = "crypto" -> " #crypto"
      [] category = "finance" -> " #finance"
      [] OTHER -> ""

\* _compose_tweet: f"{base}{tags} {link}" as its three parts.  The texts here
\* are shorter than 280 characters, which _truncate_tweet returns as they are.
ComposeTweet(a, model, ans) ==
    LET base == LlmSummarize(a.title, model, ans)
    IN  [raised |-> base.raised,
         text |-> IF base.raised THEN <<>>
                  ELSE <<base.text, TagsOf(a.category), a.link>>]

\* auto_post off: log the tweet, mark the fingerprint, continue.
DryRun ==
    /\ InBody
    /\ ~AlreadyProcessed(items[idx])
    /\ ~auto_post
    /\ \E ans \in AnswersOf(env.model) :
          IF ComposeTweet(ArticleOf(items[idx]), env.model, ans).raised
          THEN /\ pc' = "raised"
               /\ UNCHANGED <<processed, idx>>
          ELSE /\ processed' = MarkDryRun(items[idx])
               /\ idx' = idx + 1
               /\ pc' = pc
    /\ UNCHANGED <<auto_post, twitter, items, max_posts, posted, outcome,
                   returned, file, startProcessed, calls, confirmed, reposted,
                   lastFlushed, loaded, tornCrash, crashes, reader>>
    /\ UNCHANGED pipeVars

\* _ensure_twitter: the Twitter constructor raises (no credentials, get_me
\* fails); the exception leaves _post_batch before _save_processed.
EnsureTwitterRaises ==
    /\ InBody
    /\ ~AlreadyProcessed(items[idx])
    /\ auto_post
    /\ twitter = "None"
    /\ \E ans \in AnswersOf(env.model) :
          ~ComposeTweet(ArticleOf(items[idx]), env.model, ans).raised
    /\ pc' = "raised"
    /\ UNCHANGED <<processed, auto_post, twitter, items, max_posts, idx, posted,
                   outcome, returned, file, startProcessed, calls, confirmed,
                   reposted, lastFlushed, loaded, tornCrash, crashes, reader>>
    /\ UNCHANGED pipeVars

\* An _ensure_twitter that constructs a client on every call.
EnsureTwitterAlways(tw) == [built |-> TRUE, value |-> "client"]

\* _ensure_twitter when the constructor does not raise: "if self.twitter is
\* not None: return", else a client is constructed and stored.
EnsureTwitter(tw) ==
    IF tw # "None" THEN [built |-> FALSE, value |-> tw]
    ELSE [built |-> TRUE, value |-> "client"]

\* The tweet is composed, _ensure_twitter succeeds (or the client exists) and
\* post_tweet returns.  Without credentials get_me raises in the constructor.
CallPoster ==
    /\ InBody
    /\ ~AlreadyProcessed(items[idx])
    /\ auto_post
    /\ twitter = "client" \/ env.credentials
    /\ \E ans \in AnswersOf(env.model), resp \in Responses :
          LET tweet == ComposeTweet(ArticleOf(items[idx]), env.model, ans)
          IN  IF tweet.raised
              THEN /\ pc' = "raised"
                   /\ UNCHANGED <<twitter, outcome, calls, confirmed, reposted>>
              ELSE /\ twitter' = EnsureTwitter(twitter).value
                   /\ outcome' = PostTweet(resp)
                   /\ calls' = Append(calls, [hid |-> items[idx], resp |-> resp,
                                              at |-> idx, ans |-> ans,
                                              tweet |-> tweet.text,
                                              built |-> EnsureTwitter(twitter).built])
                   /\ confirmed' = IF resp.status = "created"
                                   THEN confirmed \cup {items[idx]} ELSE confirmed
                   /\ reposted' = IF items[idx] \in confirmed
                                  THEN reposted \cup {items[idx]} ELSE reposted
                   /\ pc' = "handle"
    /\ UNCHANGED <<processed, auto_post, items, max_posts, idx, posted, returned,
                   file, startProcessed, lastFlushed, loaded, tornCrash,
                   crashes, reader>>
    /\ UNCHANGED pipeVars

\* news.py:359-370
HandleOutcome ==
    /\ pc = "handle"
    /\ IF outcome.ok
       THEN /\ posted' = posted + 1
            /\ processed' = processed \cup {items[idx]}
            /\ pc' = "pause"
            /\ idx' = idx
       ELSE IF StopsCycle(outcome)
       THEN /\ pc' = "save"
            /\ UNCHANGED <<posted, processed, idx>>
       ELSE /\ processed' = MarkFailed(items[idx])
            /\ idx' = idx + 1
            /\ pc' = "loop"
            /\ posted' = posted
    /\ UNCHANGED <<auto_post, twitter, items, max_posts, outcome, returned, file,
                   startProcessed, calls, confirmed, reposted, lastFlushed,
                   loaded, tornCrash, crashes, reader>>
    /\ UNCHANGED pipeVars

\* time.sleep(3) after a successful post.
PauseDone ==
    /\ pc = "pause"
    /\ idx' = idx + 1
    /\ pc' = "loop"
    /\ UNCHANGED <<processed, auto_post, twitter, items, max_posts, posted,
                   outcome, returned, file, startProcessed, calls, confirmed,
                   reposted, lastFlushed, loaded, tornCrash, crashes, reader>>
    /\ UNCHANGED pipeVars

\* _save_processed, first half: write_text opens the file for writing, which
\* creates or truncates it.
SaveOpen ==
    /\ pc = "save"
    /\ file' = FileOf(<<>>)
    /\ pc' = "write"
    /\ UNCHANGED <<processed, auto_post, twitter, items, max_posts, idx, posted,
                   outcome, returned, startProcessed, calls, confirmed, reposted,
                   lastFlushed, loaded, tornCrash, crashes, reader>>
    /\ UNCHANGED pipeVars

\* _save_processed, second half: the text reaches the file in one or more
\* writes; after the last one _post_batch returns posted.
SaveWrite ==
    /\ pc = "write"
    /\ LET full == JsonDumps(processed)
       IN  \E k \in (Len(file.text) + 1)..Len(full) :
              /\ file' = FileOf(SubSeq(full, 1, k))
              /\ IF k = Len(full)
                 THEN /\ pc' = "returned"
                      /\ returned' = posted
                      /\ lastFlushed' = processed
                      /\ tornCrash' = FALSE
                 ELSE UNCHANGED <<pc, returned, lastFlushed, tornCrash>>
    /\ UNCHANGED <<processed, auto_post, twitter, items, max_posts, idx, posted,
                   outcome, startProcessed, calls, confirmed, reposted, loaded,
                   crashes, reader>>
    /\ UNCHANGED pipeVars

\* News.run after _post_batch returned: log the count, go to the sleep.
CycleDone ==
    /\ pc = "returned"
    /\ pc' = "idle"
    /\ returned' = -1
    /\ DropLocals
    /\ UNCHANGED <<processed, auto_post, twitter, file, confirmed, reposted,
                   lastFlushed, loaded, tornCrash, crashes, reader>>
    /\ UNCHANGED pipeVars

\* The exception leaves the loop and the process ends.
CycleErrorExits ==
    /\ pc = "raised"
    /\ pc' = "exited"
    /\ returned' = -1
    /\ DropLocals
    /\ UNCHANGED <<processed, auto_post, twitter, file, confirmed, reposted,
                   lastFlushed, loaded, tornCrash, crashes, reader>>
    /\ UNCHANGED pipeVars

\* News.run: "except Exception" at the cycle boundary, then the sleep.
CycleError ==
    /\ pc = "raised"
    /\ pc' = "idle"
    /\ returned' = -1
    /\ DropLocals
    /\ UNCHANGED <<processed, auto_post, twitter, file, confirmed, reposted,
                   lastFlushed, loaded, tornCrash, crashes, reader>>
    /\ UNCHANGED pipeVars

\* The process is killed and started again: everything in memory is lost.
Crash ==
    /\ pc \notin {"boot", "fatal"}
    /\ crashes < MaxCrashes
    /\ crashes' = crashes + 1
    /\ tornCrash' = (tornCrash \/ pc = "write")
    /\ pc' = "boot"
    /\ processed' = {}
    /\ auto_post' = TRUE
    /\ twitter' = "None"
    /\ returned' = -1
    /\ DropLocals
    /\ UNCHANGED <<file, confirmed, reposted, lastFlushed, loaded, reader>>
    /\ UNCHANGED pipeVars

\* Another process (a one-shot run) constructs News and so loads the store.
ReaderLoad ==
    /\ ~reader.done
    /\ reader' = [done |-> TRUE,
                  view |-> LoadProcessed(file).value,
                  prior |-> lastFlushed,
                  next |-> IF pc = "write" THEN processed ELSE lastFlushed]
    /\ UNCHANGED <<pc, processed, auto_post, twitter, items, max_posts, idx,
                   posted, outcome, returned, file, startProcessed, calls,
                   confirmed, reposted, lastFlushed, loaded, tornCrash, crashes>>
    /\ UNCHANGED pipeVars

\* One process that is never killed, running batch after batch.
Next ==
    \/ Construct
    \/ StartBatch
    \/ LoopExit
    \/ SkipProcessed
    \/ DryRun
    \/ EnsureTwitterRaises
    \/ CallPoster
    \/ HandleOutcome
    \/ PauseDone
    \/ SaveOpen
    \/ SaveWrite
    \/ CycleDone
    \/ CycleError

Spec == Init /\ [][Next]_vars

\* The same process with each kind of self.model; query answers as it likes.
InitCompose ==
    /\ BatchInit({Absent})
    /\ fetchIn = NoFetchIn
    /\ fetchOut = NoFetchOut
    /\ rankIn = NoRankIn
    /\ rankOut = NoRankOut
    /\ cycle = NoCycle
    /\ mode = "none"
    /\ env \in [credentials : {TRUE}, model : Models, max_per_update : {MaxCap},
                 update_interval : {600}]
    /\ quiet = NoQuiet
    /\ exitStatus = NoExit

NextCompose ==
    \/ Construct
    \/ StartShortBatch
    \/ LoopExit
    \/ SkipProcessed
    \/ DryRun
    \/ EnsureTwitterRaises
    \/ CallPoster
    \/ HandleOutcome
    \/ PauseDone
    \/ SaveOpen
    \/ SaveWrite
    \/ CycleDone
    \/ CycleError

SpecCompose == InitCompose /\ [][NextCompose]_vars

\* The same process handed lists in which a fingerprint may come again.
DupItems == 2       \* longest list with repeated fingerprints

StartDupBatch ==
    \E list \in ListsOver(StoreHids, DupItems), cap \in Caps : Enter(list, cap)

NextDup ==
    \/ Construct
    \/ StartDupBatch
    \/ LoopExit
    \/ SkipProcessed
    \/ DryRun
    \/ EnsureTwitterRaises
    \/ CallPoster
    \/ HandleOutcome
    \/ PauseDone
    \/ SaveOpen
    \/ SaveWrite
    \/ CycleDone
    \/ CycleError

SpecDup == InitFive /\ [][NextDup]_vars

\* The same process with kills and restarts.
NextStore ==
    \/ Construct
    \/ StartShortBatch
    \/ LoopExit
    \/ SkipProcessed
    \/ DryRun
    \/ EnsureTwitterRaises
    \/ CallPoster
    \/ HandleOutcome
    \/ PauseDone
    \/ SaveOpen
    \/ SaveWrite
    \/ CycleDone
    \/ CycleError
    \/ Crash

SpecStore == InitStore /\ [][NextStore]_vars

\* The same process, never killed, with a second process loading the store.
NextReader ==
    \/ Construct
    \/ StartShortBatch
    \/ LoopExit
    \/ SkipProcessed
    \/ DryRun
    \/ EnsureTwitterRaises
    \/ CallPoster
    \/ HandleOutcome
    \/ PauseDone
    \/ SaveOpen
    \/ SaveWrite
    \/ CycleDone
    \/ CycleError
    \/ ReaderLoad

SpecReader == InitStore /\ [][NextReader]_vars

\* Cycles over five ranked candidates with cap five.
NextFive ==
    \/ Construct
    \/ StartFive
    \/ LoopExit
    \/ SkipProcessed
    \/ DryRun
    \/ EnsureTwitterRaises
    \/ CallPoster
    \/ HandleOutcome
    \/ PauseDone
    \/ SaveOpen
    \/ SaveWrite
    \/ CycleDone
    \/ CycleError

SpecFive == InitFive /\ [][NextFive]_vars

\* -------------------------------------------------------- the Aggregator
MaxTotal == 3       \* largest max_total handed to _fetch_categories

\* self._rss_feeds: the feed urls of each category.
Feeds == [tech |-> <<"f1", "f2">>, ai |-> <<"f3">>, misc |-> <<>>]

FeedUrls == {"f1", "f2", "f3"}

\* self._rss_feeds.get(cat, [])
FeedsOf(cat) == IF cat \in DOMAIN Feeds THEN Feeds[cat] ELSE <<>>

\* self.categories, or the single category of fetch_by_category.
CategoryLists ==
    {<<"tech">>, <<"ai">>, <<"tech", "ai">>, <<"ai", "tech">>,
     <<"misc", "tech">>, <<"tech", "tech">>, <<"other">>}

\* _clean_source_name of the feed behind each url.
SourceOf(url) ==
    CASE url = "f1" -> "TechCrunch"
      [] url = "f2" -> "The Verge"
      [] OTHER -> "Unknown"

\* Feed entries: id, link, title as _safe_get returns them ("" when missing),
\* published 0 when the entry has neither published_parsed nor updated_parsed.
FeedEntries ==
    [e1 |-> [id |-> "g1", link |-> "l1", title |-> "t1", published |-> ClockNow - 2],
     e2 |-> [id |-> "g2", link |-> "l2", title |-> "t2", published |-> ClockNow - 1],
     e3 |-> [id |-> "", link |-> "l3", title |-> "t3", published |-> 0],
     e4 |-> [id |-> "g1", link |-> "l4", title |-> "t4", published |-> ClockNow - 3],
     e5 |-> [id |-> "g5", link |-> "", title |-> "t5", published |-> ClockNow - 1],
     e6 |-> [id |-> "g6", link |-> "l6", title |-> "", published |-> ClockNow - 1]]

\* What feedparser.parse and the entry loop can do for one url: raise at once,
\* raise after some entries were read, or deliver the entries.
FeedAnswers ==
    {[raises |-> TRUE, entries |-> <<>>],
     [raises |-> TRUE, entries |-> <<FeedEntries.e1, FeedEntries.e2>>],
     [raises |-> FALSE, entries |-> <<>>],
     [raises |-> FALSE, entries |-> <<FeedEntries.e1>>],
     [raises |-> FALSE, entries |-> <<FeedEntries.e2, FeedEntries.e3>>],
     [raises |-> FALSE, entries |-> <<FeedEntries.e4, FeedEntries.e5, FeedEntries.e2>>],
     [raises |-> FALSE, entries |-> <<FeedEntries.e3, FeedEntries.e1, FeedEntries.e6>>]}

\* _hash: the first 16 hex digits of sha256, a function of the id alone.
HashOf(s) ==
    CASE s = "g1" -> "h1"
      [] s = "g2" -> "h2"
      [] s = "l3" -> "h3"
      [] s = "g5" -> "h4"
      [] OTHER -> "h5"

\* eid = id or link or title
EidOf(e) == IF e.id # "" THEN e.id ELSE IF e.link # "" THEN e.link ELSE e.title

\* A check that asks for a title only.
ValidEntryTitleOnly(e) == e.title # ""

\* if not (title and link and eid): continue
ValidEntry(e) == e.title # "" /\ e.link # "" /\ EidOf(e) # ""

\* _normalize_published: the entry's time, or now() when it has none.
NormalizePublished(e) == IF e.published # 0 THEN e.published ELSE ClockNow

ItemOf(e, url, cat) ==
    [id |-> EidOf(e), hid |-> HashOf(EidOf(e)), title |-> e.title,
     link |-> e.link, source |-> SourceOf(url), category |-> cat,
     published_ts |-> NormalizePublished(e)]

\* The entry loop of _parse_feed over feed.entries[:per_feed_limit].
ParsedEntries(url, cat, per_feed_limit, ans) ==
    LET head == SubSeq(ans.entries, 1, Min(per_feed_limit, Len(ans.entries)))
        kept == SelectSeq(head, ValidEntry)
    IN  [i \in 1..Len(kept) |-> ItemOf(kept[i], url, cat)]

\* _parse_feed without its try/except.
ParseFeedNoCatch(url, cat, per_feed_limit, ans) ==
    IF ans.raises
    THEN [raised |-> TRUE, value |-> <<>>]
    ELSE [raised |-> FALSE, value |-> ParsedEntries(url, cat, per_feed_limit, ans)]

\* _parse_feed: any exception is logged and the feed yields [].
ParseFeed(url, cat, per_feed_limit, ans) ==
    IF ans.raises
    THEN [raised |-> FALSE, value |-> <<>>]
    ELSE [raised |-> FALSE, value |-> ParsedEntries(url, cat, per_feed_limit, ans)]

\* A share that is the whole budget.
PerFeedWhole(max_total, feeds) == Max(1, max_total)

\* per_feed = max(1, max_total // max(1, len(feeds) or 1))
PerFeed(max_total, feeds) ==
    Max(1, max_total \div Max(1, IF Len(feeds) # 0 THEN Len(feeds) ELSE 1))

RECURSIVE Flatten(_)
Flatten(ss) == IF ss = <<>> THEN <<>> ELSE Head(ss) \o Flatten(Tail(ss))

\* The _parse_feed calls of one category, in feed order.
CategoryCalls(cat, max_total, answers) ==
    LET feeds == FeedsOf(cat)
    IN  [i \in 1..Len(feeds) |->
            ParseFeed(feeds[i], cat, PerFeed(max_total, feeds), answers[feeds[i]])]

\* All _parse_feed calls of _fetch_categories, in call order.
FeedCalls(cats, max_total, answers) ==
    Flatten([c \in 1..Len(cats) |-> CategoryCalls(cats[c], max_total, answers)])

\* items after the two nested loops.
Gathered(cats, max_total, answers) ==
    LET calls_ == FeedCalls(cats, max_total, answers)
    IN  Flatten([i \in 1..Len(calls_) |-> calls_[i].value])

\* A dedupe that keeps everything.
DedupeKeepsAll(its, seen) == its

\* A dedupe that keeps the last article of each fingerprint.
RECURSIVE DedupeKeepsLast(_, _)
DedupeKeepsLast(its, seen) ==
    IF its = <<>> THEN <<>>
    ELSE IF \E j \in 1..Len(Tail(its)) : Tail(its)[j].hid = Head(its).hid
         THEN DedupeKeepsLast(Tail(its), seen)
         ELSE <<Head(its)>> \o DedupeKeepsLast(Tail(its), seen)

\* The dedupe loop: the first article of each fingerprint is kept.
RECURSIVE DedupeFrom(_, _)
DedupeFrom(its, seen) ==
    IF its = <<>> THEN <<>>
    ELSE IF Head(its).hid \in seen
         THEN DedupeFrom(Tail(its), seen)
         ELSE <<Head(its)>> \o DedupeFrom(Tail(its), seen \cup {Head(its).hid})

\* Tuple comparison of Python: the first differing component decides.
RECURSIVE KeyLess(_, _)
KeyLess(k1, k2) ==
    IF k1 = <<>> \/ k2 = <<>> THEN k1 = <<>> /\ k2 # <<>>
    ELSE IF Head(k1) # Head(k2) THEN Head(k1) < Head(k2)
         ELSE KeyLess(Tail(k1), Tail(k2))

\* list.sort(key=..., reverse=True) is stable: among equal keys the input order
\* stays.  p goes behind every element whose key is not smaller.
InsertStable(sorted, p) ==
    LET k == Cardinality({i \in 1..Len(sorted) : ~KeyLess(sorted[i].key, p.key)})
    IN  SubSeq(sorted, 1, k) \o <<p>> \o SubSeq(sorted, k + 1, Len(sorted))

RECURSIVE SortFrom(_, _)
SortFrom(rest, sorted) ==
    IF rest = <<>> THEN sorted
    ELSE SortFrom(Tail(rest), InsertStable(sorted, Head(rest)))

\* No sort at all.
SortSkipped(seq, keys) == seq

\* seq.sort(key=Key, reverse=True), keys given as the parallel sequence keys.
SortDescBy(seq, keys) ==
    LET done == SortFrom([i \in 1..Len(seq) |-> [key |-> keys[i], val |-> seq[i]]], <<>>)
    IN  [i \in 1..Len(done) |-> done[i].val]

\* _fetch_categories
FetchCategories(cats, max_total, answers) ==
    LET calls_ == FeedCalls(cats, max_total, answers)
        out == DedupeFrom(Gathered(cats, max_total, answers), {})
    IN  IF \E i \in 1..Len(calls_) : calls_[i].raised
        THEN [raised |-> TRUE, value |-> <<>>]
        ELSE [raised |-> FALSE,
              value |-> SortDescBy(out, [i \in 1..Len(out) |-> <<out[i].published_ts>>])]

FetchInputs ==
    [cats : CategoryLists, max_total : 1..MaxTotal, answers : [FeedUrls -> FeedAnswers]]

InitFetch ==
    /\ BatchInit({Absent})
    /\ fetchIn \in FetchInputs
    /\ fetchOut = NoFetchOut
    /\ rankIn = NoRankIn
    /\ rankOut = NoRankOut
    /\ cycle = NoCycle
    /\ mode = "none"
    /\ EnvIdle

batchVars == <<pc, processed, auto_post, twitter, items, max_posts, idx, posted,
               outcome, returned, file, startProcessed, calls, confirmed,
               reposted, lastFlushed, loaded, tornCrash, crashes, reader>>

\* A caller runs _fetch_categories(cats, max_total).
CallFetch ==
    /\ ~fetchOut.done
    /\ LET r == FetchCategories(fetchIn.cats, fetchIn.max_total, fetchIn.answers)
       IN  fetchOut' = [done |-> TRUE, raised |-> r.raised, value |-> r.value]
    /\ UNCHANGED <<batchVars, fetchIn, rankIn, rankOut, cycle, mode, env, quiet,
                   exitStatus>>

NextFetch == CallFetch

SpecFetch == InitFetch /\ [][NextFetch]_vars

\* ------------------------------------------------------------ the Ranker
MaxRank == 3        \* longest list handed to _score_items

\* Times of the Ranker are counted in half-lives (six hours) around ClockNow.
\* Articles as _parse_feed builds them.
RankPool ==
    {[id |-> "g1", hid |-> "h1", title |-> "t1", link |-> "l1",
      source |-> "TechCrunch", category |-> "tech", published_ts |-> ClockNow - 1],
     [id |-> "g2", hid |-> "h2", title |-> "t2", link |-> "l2",
      source |-> "The Verge", category |-> "tech", published_ts |-> ClockNow - 1],
     [id |-> "g3", hid |-> "h3", title |-> "Chip surge", link |-> "l3",
      source |-> "Unknown", category |-> "tech", published_ts |-> ClockNow + 1],
     [id |-> "g4", hid |-> "h4", title |-> "CHIP surge!", link |-> "l4",
      source |-> "Some Blog", category |-> "tech", published_ts |-> ClockNow + 2],
     [id |-> "g5", hid |-> "h5", title |-> "btc etf", link |-> "l5",
      source |-> "CoinDesk", category |-> "crypto", published_ts |-> ClockNow - 2],
     [id |-> "g6", hid |-> "h6", title |-> "U.S. rates", link |-> "l6",
      source |-> "Unknown", category |-> "tech", published_ts |-> ClockNow],
     [id |-> "g7", hid |-> "h7", title |-> "US rates", link |-> "l7",
      source |-> "Some Blog", category |-> "tech", published_ts |-> ClockNow - 1],
     [id |-> "g8", hid |-> "h8", title |-> "Surge alert", link |-> "l8",
      source |-> "Unknown", category |-> "tech", published_ts |-> ClockNow],
     [id |-> "g9", hid |-> "h9", title |-> "btc etf", link |-> "l9",
      source |-> "Unknown", category |-> "tech", published_ts |-> ClockNow - 2]}

\* norm_title: lower case, runs of other characters become one blank, stripped.
NormTitle(t) ==
    CASE t = "Chip surge" -> "chip surge"
      [] t = "CHIP surge!" -> "chip surge"
      [] t = "U.S. rates" -> "u s rates"
      [] t = "US rates" -> "us rates"
      [] t = "Surge alert" -> "surge alert"
      [] OTHER -> t

\* counts[norm_title(title)] over the input list
CountOf(a, its) ==
    Cardinality({i \in 1..Len(its) : NormTitle(its[i].title) = NormTitle(a.title)})

\* self.cfg.source_priorities.get(source, source_priorities.get("Unknown", 1))
SourcePriority(source) ==
    CASE source = "TechCrunch" -> 4
      [] source = "The Verge" -> 4
      [] source = "CoinDesk" -> 4
      [] OTHER -> 1

\* How many of cfg.breaking_keywords title.lower() contains: "surge", "alert".
GeneralMatches(title) ==
    CASE title = "Chip surge" -> 1
      [] title = "CHIP surge!" -> 1
      [] title = "Surge alert" -> 2
      [] OTHER -> 0

\* How many of cfg.crypto_breaking_keywords title.lower() contains: "btc",
\* "surge".
CryptoMatches(title) ==
    CASE title = "btc etf" -> 1
      [] title = "Chip surge" -> 1
      [] title = "CHIP surge!" -> 1
      [] title = "Surge alert" -> 1
      [] OTHER -> 0

\* The crypto keywords count in every category.
IsBreakingAnyCategory(a) ==
    GeneralMatches(a.title) > 0 \/ CryptoMatches(a.title) > 0

\* any(kw in title.lower() ...) over the breaking keywords, and for the
\* category crypto over the crypto keywords as well.
IsBreaking(a) ==
    \/ GeneralMatches(a.title) > 0
    \/ a.category = "crypto" /\ CryptoMatches(a.title) > 0

\* age_hours / half_life, with age_hours = max(0.0, now - published_ts)
AgeOf(a) == Max(0, ClockNow - a.published_ts)

\* w_recency * exp(-age) in units of 0.0001, as round(score, 4) leaves it.
DecayE4(age) ==
    LET table == <<20000, 7358, 2707, 996, 366, 135, 50, 18, 7, 2, 1>>
    IN  IF age < Len(table) THEN table[age + 1] ELSE 0

\* A corroboration term of w_multi * c.
ScoreOfWholeCount(a, its) ==
    12000 * SourcePriority(a.source) + 10000 * CountOf(a, its)
    + (IF IsBreaking(a) THEN 10000 ELSE 0) + DecayE4(AgeOf(a))

\* A score without the keyword term.
ScoreOfNoKeyword(a, its) ==
    12000 * SourcePriority(a.source) + 10000 * (CountOf(a, its) - 1)
    + DecayE4(AgeOf(a))

\* a2["score"], in units of 0.0001
ScoreOf(a, its) ==
    12000 * SourcePriority(a.source) + 10000 * (CountOf(a, its) - 1)
    + (IF IsBreaking(a) THEN 10000 ELSE 0) + DecayE4(AgeOf(a))

\* A sort key without the publication time.
ScoreOnlyKey(a, its) == <<ScoreOf(a, its)>>

\* key=lambda x: (x["score"], x["published_ts"])
SortKey(a, its) == <<ScoreOf(a, its), a.published_ts>>

\* _score_items; the result carries each article's score and the fields
\* multi_appear and is_breaking attached with it.
ScoreItems(its) ==
    LET scored == [i \in 1..Len(its) |->
                      [hid |-> its[i].hid, score |-> ScoreOf(its[i], its),
                       published_ts |-> its[i].published_ts,
                       multi_appear |-> CountOf(its[i], its),
                       is_breaking |-> IsBreaking(its[i])]]
    IN  SortDescBy(scored, [i \in 1..Len(its) |-> SortKey(its[i], its)])

\* Lists of distinct articles.
RankLists ==
    UNION {{l \in [1..n -> RankPool] : \A i, j \in 1..n : i # j => l[i] # l[j]} :
              n \in 1..MaxRank}

\* The orderings of one list.
Orderings(l) ==
    {[i \in 1..Len(l) |-> l[p[i]]] :
        p \in {q \in [1..Len(l) -> 1..Len(l)] :
                  \A i, j \in 1..Len(l) : i # j => q[i] # q[j]}}

InitRank ==
    /\ BatchInit({Absent})
    /\ fetchIn = NoFetchIn
    /\ fetchOut = NoFetchOut
    /\ \E l \in RankLists :
          rankIn \in [items : {l}, shuffled : Orderings(l)]
    /\ rankOut = NoRankOut
    /\ cycle = NoCycle
    /\ mode = "none"
    /\ EnvIdle

\* The score fields written into the caller's records.
InputAfterScoreInPlace(its) ==
    [i \in 1..Len(its) |->
        [score |-> ScoreOf(its[i], its), multi_appear |-> CountOf(its[i], its),
         is_breaking |-> IsBreaking(its[i])] @@ its[i]]

\* The caller's list after _score_items: a2 = dict(a) takes the new fields,
\* scored is a new list and the sort moves only that one.
InputAfterScore(its) == its

\* _score_items runs on the list, and on the same articles in another order.
CallScore ==
    /\ ~rankOut.done
    /\ rankOut' = [done |-> TRUE, value |-> ScoreItems(rankIn.items),
                   other |-> ScoreItems(rankIn.shuffled)]
    /\ rankIn' = [items |-> InputAfterScore(rankIn.items),
                  shuffled |-> InputAfterScore(rankIn.shuffled)]
    /\ UNCHANGED <<batchVars, fetchIn, fetchOut, cycle, mode, env, quiet,
                   exitStatus>>

NextRank == CallScore

SpecRank == InitRank /\ [][NextRank]_vars

\* --------------------------------------------------------------- the loops
\* schedule_settings['quiet_hours'] = ['22:00', '06:00']; 'HH:MM' strings
\* compare as the numbers HHMM do.
QuietStart == 2200

QuietEnd == 600

\* return quiet_start <= current_hour or current_hour <= quiet_end
IsQuietHourIn(start, end, hhmm) == start <= hhmm \/ hhmm <= end

\* quiet_start <= current_hour or current_hour <= quiet_end, with "and".
IsQuietHourBoth(c) == QuietStart <= c.hhmm /\ c.hhmm <= QuietEnd

\* NewsConfig.is_quiet_hour with the shipped window
IsQuietHour(c) == IsQuietHourIn(QuietStart, QuietEnd, c.hhmm)

\* NewsConfig.should_reduce_frequency, weekend_reduced_frequency being True.
ShouldReduceFrequency(c) == c.weekday >= 5

\* max_per_run of News.run and --max-posts of the runner: both default to
\* NEWS_MAX_ARTICLES_PER_UPDATE.
MaxPerRun == MaxCap

\* News.run: what "or" puts in the place of a cap or interval of 0.
DefaultMaxPerRun == 5

DefaultInterval == 1800

\* time.sleep(max(30, ...)) of both loops
MinSleep == 30

\* max_per_run = int(self.max_per_update or 5)
MaxPerRunOf(max_per_update) ==
    IF max_per_update # 0 THEN max_per_update ELSE DefaultMaxPerRun

\* max_run_now of News.run
MaxRunNow(c) ==
    IF ShouldReduceFrequency(c)
    THEN Max(1, MaxPerRunOf(env.max_per_update) \div 2)
    ELSE MaxPerRunOf(env.max_per_update)

\* A sleep of the interval as it is configured.
SleepSecondsAsGiven(m, interval) == interval

\* News.run: time.sleep(max(30, interval)) with
\* interval = int(self.update_interval or 1800); the runner:
\* time.sleep(max(30, int(args.interval))).
SleepSeconds(m, interval) ==
    IF m = "scheduler"
    THEN Max(MinSleep, IF interval # 0 THEN interval ELSE DefaultInterval)
    ELSE Max(MinSleep, interval)

\* What datetime.now() gives when a cycle starts: a Friday before dawn, at
\* noon, a Saturday at noon and late in the evening.
CycleTimes ==
    {[hhmm |-> 500, weekday |-> 4], [hhmm |-> 1200, weekday |-> 4],
     [hhmm |-> 1200, weekday |-> 5], [hhmm |-> 2300, weekday |-> 5]}

\* Ranked lists a cycle can come up with: the fingerprints of _score_items of
\* _fetch_all, in rank order, distinct after the dedupe; empty when nothing
\* was fetched.
RankedLists ==
    {l \in ListsOver(StoreHids, StoreItems) :
        \A i, j \in 1..Len(l) : i # j => l[i] # l[j]}

InitLoop ==
    /\ BatchInit(CleanFiles)
    /\ fetchIn = NoFetchIn
    /\ fetchOut = NoFetchOut
    /\ rankIn = NoRankIn
    /\ rankOut = NoRankOut
    /\ cycle = NoCycle
    /\ mode \in {"scheduler", "runner"}
    /\ env \in [credentials : BOOLEAN, model : {"None"},
                 max_per_update : {MaxCap}, update_interval : {600}]
    /\ quiet = NoQuiet
    /\ exitStatus = NoExit

\* auto_post_news.py / __main__: News(...) is constructed, then run().
SchedulerStart == mode = "scheduler" /\ Construct

\* news_runner.py main --loop: nothing is constructed before the loop.
RunnerStart ==
    /\ mode = "runner"
    /\ pc = "boot"
    /\ pc' = "idle"
    /\ auto_post' \in BOOLEAN
    /\ UNCHANGED <<processed, twitter, items, max_posts, idx, posted, outcome,
                   returned, file, startProcessed, calls, confirmed, reposted,
                   lastFlushed, loaded, tornCrash, crashes, reader, pipeVars>>

\* time.sleep returns (or the loop is entered): the next iteration starts.
\* slept is the length of the sleep that ended, 0 before the first iteration.
Wake ==
    /\ pc = "idle"
    /\ pc' = "wake"
    /\ \E t \in CycleTimes :
          cycle' = [hhmm |-> t.hhmm, weekday |-> t.weekday, fetched |-> FALSE,
                    slept |-> IF cycle = NoCycle THEN 0
                              ELSE SleepSeconds(mode, env.update_interval)]
    /\ UNCHANGED <<processed, auto_post, twitter, items, max_posts, idx, posted,
                   outcome, returned, file, startProcessed, calls, confirmed,
                   reposted, lastFlushed, loaded, tornCrash, crashes, reader,
                   fetchIn, fetchOut, rankIn, rankOut, mode, env, quiet,
                   exitStatus>>

\* News.run: quiet hours, the cycle is skipped.
SkipQuiet ==
    /\ mode = "scheduler"
    /\ pc = "wake"
    /\ IsQuietHour(cycle)
    /\ pc' = "idle"
    /\ UNCHANGED <<processed, auto_post, twitter, items, max_posts, idx, posted,
                   outcome, returned, file, startProcessed, calls, confirmed,
                   reposted, lastFlushed, loaded, tornCrash, crashes, reader,
                   pipeVars>>

\* News.run outside quiet hours: fetch, and if anything came, rank and enter
\* _post_batch(ranked, max_run_now).
SchedulerCycle ==
    /\ mode = "scheduler"
    /\ ~IsQuietHour(cycle)
    /\ cycle' = [cycle EXCEPT !.fetched = TRUE]
    /\ \E ranked \in RankedLists :
          IF ranked = <<>>
          THEN /\ pc = "wake"
               /\ pc' = "idle"
               /\ UNCHANGED <<processed, auto_post, twitter, items, max_posts,
                              idx, posted, outcome, returned, file,
                              startProcessed, calls, confirmed, reposted,
                              lastFlushed, loaded, tornCrash, crashes, reader>>
          ELSE EnterAt("wake", ranked, MaxRunNow(cycle))
    /\ UNCHANGED <<fetchIn, fetchOut, rankIn, rankOut, mode, env, quiet,
                   exitStatus>>

\* run_once: News is constructed (the store is loaded, no Twitter client),
\* then fetch, and if anything came, rank and enter _post_batch(ranked,
\* max_posts).  No clock is asked.
RunnerCycle ==
    /\ mode = "runner"
    /\ pc = "wake"
    /\ cycle' = [cycle EXCEPT !.fetched = TRUE]
    /\ processed' = LoadProcessed(file).value
    /\ loaded' = LoadProcessed(file).value
    /\ twitter' = "None"
    /\ \E ranked \in RankedLists :
          IF ranked = <<>>
          THEN /\ pc' = "idle"
               /\ UNCHANGED <<items, max_posts, idx, posted, outcome, returned,
                              startProcessed, calls>>
          ELSE /\ items' = ranked
               /\ max_posts' = MaxPerRun
               /\ idx' = 1
               /\ posted' = 0
               /\ pc' = "loop"
               /\ startProcessed' = LoadProcessed(file).value
               /\ calls' = <<>>
               /\ outcome' = NoOutcome
               /\ returned' = -1
    /\ UNCHANGED <<auto_post, file, confirmed, reposted, lastFlushed, tornCrash,
                   crashes, reader, fetchIn, fetchOut, rankIn, rankOut, mode, env,
                   quiet, exitStatus>>

\* _save_processed: write_text raises before it opens the file (the data
\* directory is gone or not writable); the exception leaves _post_batch.
SaveRaises ==
    /\ pc = "save"
    /\ pc' = "raised"
    /\ UNCHANGED <<processed, auto_post, twitter, items, max_posts, idx, posted,
                   outcome, returned, file, startProcessed, calls, confirmed,
                   reposted, lastFlushed, loaded, tornCrash, crashes, reader,
                   pipeVars>>

\* SIGINT: KeyboardInterrupt is no Exception, so it passes the except clauses
\* of _post_batch's callers and the process ends where it stands.
Interrupt ==
    /\ pc \notin {"boot", "fatal", "exited"}
    /\ pc' = "exited"
    /\ UNCHANGED <<processed, auto_post, twitter, items, max_posts, idx, posted,
                   outcome, returned, file, startProcessed, calls, confirmed,
                   reposted, lastFlushed, loaded, tornCrash, crashes, reader,
                   pipeVars>>

\* Either loop, left alone.
NextLoop ==
    \/ SchedulerStart
    \/ RunnerStart
    \/ Wake
    \/ SkipQuiet
    \/ SchedulerCycle
    \/ RunnerCycle
    \/ LoopExit
    \/ SkipProcessed
    \/ DryRun
    \/ EnsureTwitterRaises
    \/ CallPoster
    \/ HandleOutcome
    \/ PauseDone
    \/ SaveOpen
    \/ SaveRaises
    \/ SaveWrite
    \/ CycleDone
    \/ CycleError

SpecLoop == InitLoop /\ [][NextLoop]_vars

\* One sequential process whose calls and sleeps return: a step that can be
\* taken is taken.
SpecLoopFair == InitLoop /\ [][NextLoop]_vars /\ WF_vars(NextLoop)

\* Either loop under the settings of NEWS_MAX_ARTICLES_PER_UPDATE and
\* NEWS_UPDATE_INTERVAL, zero and negative ones among them.
Settings ==
    [credentials : {TRUE}, model : {"None"}, max_per_update : -1..MaxCap,
     update_interval : {600}]
    \cup [credentials : {TRUE}, model : {"None"}, max_per_update : {MaxCap},
          update_interval : {-5, 0, 10}]

InitConfig ==
    /\ BatchInit({Absent})
    /\ fetchIn = NoFetchIn
    /\ fetchOut = NoFetchOut
    /\ rankIn = NoRankIn
    /\ rankOut = NoRankOut
    /\ cycle = NoCycle
    /\ mode \in {"scheduler", "runner"}
    /\ env \in Settings
    /\ quiet = NoQuiet
    /\ exitStatus = NoExit

SpecConfig == InitConfig /\ [][NextLoop]_vars

\* Either loop, with an interrupt from outside at any moment.
NextShutdown ==
    \/ SchedulerStart
    \/ RunnerStart
    \/ Wake
    \/ SkipQuiet
    \/ SchedulerCycle
    \/ RunnerCycle
    \/ LoopExit
    \/ SkipProcessed
    \/ DryRun
    \/ EnsureTwitterRaises
    \/ CallPoster
    \/ HandleOutcome
    \/ PauseDone
    \/ SaveOpen
    \/ SaveRaises
    \/ SaveWrite
    \/ CycleDone
    \/ CycleError
    \/ Interrupt

SpecShutdown == InitLoop /\ [][NextShutdown]_vars

\* Times of day, as HHMM.
TimesOfDay == {0, 100, 300, 500, 600, 1200, 2200, 2300, 2359}

\* is_quiet_hour is called with some window in schedule_settings['quiet_hours']
\* at some time of day.
InitQuiet ==
    /\ BatchInit({Absent})
    /\ fetchIn = NoFetchIn
    /\ fetchOut = NoFetchOut
    /\ rankIn = NoRankIn
    /\ rankOut = NoRankOut
    /\ cycle = NoCycle
    /\ mode = "none"
    /\ env = DefaultEnv
    /\ quiet \in {q \in [start : TimesOfDay, end : TimesOfDay, hhmm : TimesOfDay,
                        done : {FALSE}, result : {FALSE}] : q.start # q.end}
    /\ exitStatus = NoExit

CallIsQuietHour ==
    /\ ~quiet.done
    /\ quiet' = [quiet EXCEPT !.done = TRUE,
                              !.result = IsQuietHourIn(quiet.start, quiet.end,
                                                       quiet.hhmm)]
    /\ UNCHANGED <<batchVars, fetchIn, fetchOut, rankIn, rankOut, cycle, mode,
                   env, exitStatus>>

NextQuiet == CallIsQuietHour

SpecQuiet == InitQuiet /\ [][NextQuiet]_vars

\* news_runner.py main --once: one run_once, then the process ends.
InitOnce ==
    /\ BatchInit(CleanFiles)
    /\ fetchIn = NoFetchIn
    /\ fetchOut = NoFetchOut
    /\ rankIn = NoRankIn
    /\ rankOut = NoRankOut
    /\ cycle = NoCycle
    /\ mode = "once"
    /\ env \in [credentials : BOOLEAN, model : {"None", "no_query"},
                 max_per_update : {MaxCap}, update_interval : {600}]
    /\ quiet = NoQuiet
    /\ exitStatus = NoExit

\* build_news: the constructor of News raises (int() of a malformed
\* NEWS_UPDATE_INTERVAL, for one).
OnceConstructRaises ==
    /\ mode = "once"
    /\ pc = "boot"
    /\ pc' = "raised"
    /\ UNCHANGED <<processed, auto_post, twitter, items, max_posts, idx, posted,
                   outcome, returned, file, startProcessed, calls, confirmed,
                   reposted, lastFlushed, loaded, tornCrash, crashes, reader,
                   pipeVars>>

\* run_once: News is constructed, then fetch; "if not raw: return 0", else
\* rank and enter _post_batch(ranked, max_posts).
OnceCycle ==
    /\ mode = "once"
    /\ pc = "boot"
    /\ cycle' = [cycle EXCEPT !.fetched = TRUE]
    /\ processed' = LoadProcessed(file).value
    /\ loaded' = LoadProcessed(file).value
    /\ auto_post' \in BOOLEAN
    /\ twitter' = "None"
    /\ \E ranked \in RankedLists :
          IF ranked = <<>>
          THEN /\ pc' = "returned"
               /\ returned' = 0
               /\ UNCHANGED <<items, max_posts, idx, posted, outcome,
                              startProcessed, calls>>
          ELSE /\ items' = ranked
               /\ max_posts' = MaxPerRun
               /\ idx' = 1
               /\ posted' = 0
               /\ pc' = "loop"
               /\ startProcessed' = LoadProcessed(file).value
               /\ calls' = <<>>
               /\ outcome' = NoOutcome
               /\ returned' = -1
    /\ UNCHANGED <<file, confirmed, reposted, lastFlushed, tornCrash, crashes,
                   reader, fetchIn, fetchOut, rankIn, rankOut, mode, env, quiet,
                   exitStatus>>

\* main: run_once returned, "return", the interpreter exits with status 0.
OnceDone ==
    /\ mode = "once"
    /\ pc = "returned"
    /\ pc' = "exited"
    /\ exitStatus' = [done |-> TRUE, status |-> 0, logged |-> FALSE]
    /\ UNCHANGED <<processed, auto_post, twitter, items, max_posts, idx, posted,
                   outcome, returned, file, startProcessed, calls, confirmed,
                   reposted, lastFlushed, loaded, tornCrash, crashes, reader,
                   fetchIn, fetchOut, rankIn, rankOut, cycle, mode, env, quiet>>

\* main: "except Exception as e: log.exception(...)", then the same "return".
OnceError ==
    /\ mode = "once"
    /\ pc = "raised"
    /\ pc' = "exited"
    /\ exitStatus' = [done |-> TRUE, status |-> 0, logged |-> TRUE]
    /\ UNCHANGED <<processed, auto_post, twitter, items, max_posts, idx, posted,
                   outcome, returned, file, startProcessed, calls, confirmed,
                   reposted, lastFlushed, loaded, tornCrash, crashes, reader,
                   fetchIn, fetchOut, rankIn, rankOut, cycle, mode, env, quiet>>

NextOnce ==
    \/ OnceConstructRaises
    \/ OnceCycle
    \/ LoopExit
    \/ SkipProcessed
    \/ DryRun
    \/ EnsureTwitterRaises
    \/ CallPoster
    \/ HandleOutcome
    \/ PauseDone
    \/ SaveOpen
    \/ SaveRaises
    \/ SaveWrite
    \/ OnceDone
    \/ OnceError

SpecOnce == InitOnce /\ [][NextOnce]_vars

\* ------------------------------------------------------------------ claims
Created(c) == c.resp.status = "created"

\* The platform answered 429 and a retry-after duration could be extracted.
RateLimitedWithRetry(c) == c.resp.status = "429" /\ c.resp.header # "none"

\* The platform answered 429 and no retry-after value could be extracted.
RateLimitedNoRetry(c) == c.resp.status = "429" /\ c.resp.header = "none"

\* The platform answered with an error that is no rate limit.
FailedOther(c) == c.resp.status = "error"

\* Successful posts among the first n Poster calls of the batch.
OkUpTo(n) == Cardinality({j \in 1..n : Created(calls[j])})

\* Fingerprints the batch has marked so far.
Marked == processed \ startProcessed

\* Distinct fingerprints of the batch that were not stored when it started.
Eligible == {items[i] : i \in 1..Len(items)} \ startProcessed

\* C1: no candidate whose fingerprint was in the processed set when the
\* batch started is passed to the Poster during the batch.
C1_NoDoublePost ==
    \A i \in 1..Len(calls) : calls[i].hid \notin startProcessed

\* A batch that met a stored candidate, skipped it and went on to call the Poster.
C1_Witness ==
    /\ pc = "returned"
    /\ Len(calls) >= 1
    /\ \E i \in 1..Len(items) : items[i] \in startProcessed

\* C2: a rate-limit answer with a retry-after duration is the last Poster call
\* of the batch and its candidate is not marked; with five ranked candidates
\* and cap five, a rate limit on the 2nd call leaves at most one article
\* posted and at most one fingerprint marked.
C2_RateLimitHalts ==
    /\ \A i \in 1..Len(calls) :
          RateLimitedWithRetry(calls[i]) =>
              /\ i = Len(calls)
              /\ calls[i].hid \notin processed
    /\ (Len(calls) >= 2 /\ RateLimitedWithRetry(calls[2])) =>
          /\ posted <= 1
          /\ OkUpTo(Len(calls)) <= 1
          /\ Cardinality(Marked) <= 1

\* Five candidates, cap five, the 1st post succeeded, the 2nd call was rate
\* limited, and the batch has returned.
C2_Witness ==
    /\ pc = "returned"
    /\ Len(items) = 5
    /\ max_posts = 5
    /\ Len(calls) = 2
    /\ Created(calls[1])
    /\ RateLimitedWithRetry(calls[2])
    /\ returned = 1
    /\ Cardinality(Marked) = 1

\* C3: a rate-limit answer without a retry-after value is the last Poster
\* call of the batch and its candidate is not marked.
C3_NullRetryHalts ==
    \A i \in 1..Len(calls) :
        RateLimitedNoRetry(calls[i]) =>
            /\ i = Len(calls)
            /\ calls[i].hid \notin processed

\* C4: a dry-run batch with cap c over n eligible candidates has marked
\* exactly min(c, n) fingerprints when it returns, without a Poster call and
\* without a Twitter client.
C4_DryRunMarksMin ==
    (pc = "returned" /\ ~auto_post) =>
        /\ Cardinality(Marked) = Min(max_posts, Cardinality(Eligible))
        /\ calls = <<>>
        /\ twitter = "None"

\* C5: no fingerprint the Poster confirmed is passed to the Poster again,
\* whatever kills and restarts happen; and what a restart loads was flushed
\* by a completed batch or confirmed posted.
C5_CrashNoDoublePost ==
    /\ reposted = {}
    /\ crashes > 0 => loaded \subseteq (lastFlushed \cup confirmed)

\* C6: after a kill inside a flush, the next load returns the set of the last
\* completed flush.
C6_ReloadAfterTornFlush ==
    (tornCrash /\ pc # "boot") => loaded = lastFlushed

\* C7: a load by another process returns the last flushed set or the set
\* being flushed.
C7_ReaderSeesWholeSet ==
    reader.done => reader.view \in {reader.prior, reader.next}

\* A file the try block of _load_processed cannot turn into a set.
Unloadable(f) == f.exists /\ TryLoad(f).raised

C9_PermanentFailure ==
    [][(pc = "handle" /\ FailedOther(calls[Len(calls)])) =>
          /\ processed' = processed \cup {items[idx]}
          /\ posted' = posted
          /\ idx' = idx + 1
          /\ pc' = "loop"
          /\ items' = items
          /\ max_posts' = max_posts]_vars

\* A failed candidate was marked, nothing counts as posted, and the loop
\* called the Poster for the next candidate.
C9_Witness ==
    /\ Len(calls) = 2
    /\ FailedOther(calls[1])
    /\ calls[1].hid \in processed
    /\ calls[1].hid \notin startProcessed
    /\ calls[2].hid # calls[1].hid
    /\ OkUpTo(1) = 0

\* C10: the successful posts of a batch never exceed max_posts, every Poster
\* call is made with fewer than max_posts successes before it, and the value
\* returned is the number of successful posts.
C10_PostCap ==
    /\ posted <= max_posts
    /\ OkUpTo(Len(calls)) <= max_posts
    /\ \A i \in 1..Len(calls) : OkUpTo(i - 1) < max_posts
    /\ pc = "returned" => returned = OkUpTo(Len(calls))

\* The cap ended the loop: max_posts posts succeeded and an eligible
\* candidate was left unattempted.
C10_Witness ==
    /\ pc = "returned"
    /\ max_posts >= 1
    /\ returned = max_posts
    /\ \E i \in 1..Len(items) : items[i] \notin processed

\* What the _parse_feed calls of the fetch handed back, before the dedupe.
FetchedItems == Gathered(fetchIn.cats, fetchIn.max_total, fetchIn.answers)

HidsOf(seq) == {seq[i].hid : i \in 1..Len(seq)}

\* C11: the output of _fetch_categories holds exactly one entry for each
\* fingerprint that the feeds delivered: no two entries share a fingerprint and
\* no fetched fingerprint is missing, also when the same id comes from several
\* feeds or categories.
C11_DedupExact ==
    fetchOut.done =>
        /\ \A i, j \in 1..Len(fetchOut.value) :
              i # j => fetchOut.value[i].hid # fetchOut.value[j].hid
        /\ HidsOf(fetchOut.value) = HidsOf(FetchedItems)

\* A fetch in which one fingerprint came from two categories.
C11_Witness ==
    /\ fetchOut.done
    /\ \E i, j \in 1..Len(FetchedItems) :
          /\ FetchedItems[i].hid = FetchedItems[j].hid
          /\ FetchedItems[i].category # FetchedItems[j].category
    /\ Len(fetchOut.value) >= 2

\* The feeds asked for by the fetch, as (category, url) pairs.
AskedFeeds ==
    {f \in (DOMAIN Feeds) \X FeedUrls :
        /\ \E c \in 1..Len(fetchIn.cats) : fetchIn.cats[c] = f[1]
        /\ \E i \in 1..Len(Feeds[f[1]]) : Feeds[f[1]][i] = f[2]}

FeedFails(f) == fetchIn.answers[f[2]].raises

\* The articles a feed that did not fail delivers within its share.
DeliveredBy(f) ==
    ParsedEntries(f[2], f[1], PerFeed(fetchIn.max_total, FeedsOf(f[1])),
                  fetchIn.answers[f[2]])

\* C19: a feed whose fetch or parse fails contributes no article, every article
\* of every other requested feed is still returned (by fingerprint), and
\* _fetch_categories raises nothing.
C19_FeedIsolation ==
    fetchOut.done =>
        /\ ~fetchOut.raised
        /\ \A f \in AskedFeeds :
              ~FeedFails(f) => HidsOf(DeliveredBy(f)) \subseteq HidsOf(fetchOut.value)
        /\ \A i \in 1..Len(fetchOut.value) :
              \E f \in AskedFeeds :
                 /\ ~FeedFails(f)
                 /\ \E k \in 1..Len(DeliveredBy(f)) : DeliveredBy(f)[k] = fetchOut.value[i]

\* One requested feed failed after it had read entries, another delivered.
C19_Witness ==
    /\ fetchOut.done
    /\ \E f \in AskedFeeds : FeedFails(f) /\ fetchIn.answers[f[2]].entries # <<>>
    /\ \E f \in AskedFeeds : ~FeedFails(f) /\ DeliveredBy(f) # <<>>
    /\ fetchOut.value # <<>>

\* C20: the list returned by _fetch_categories has at most max_total articles.
C20_TotalBudget == fetchOut.done => Len(fetchOut.value) <= fetchIn.max_total

\* C12: in the output of _score_items the scores never increase from one entry
\* to the next, and of two entries with the same score and different
\* publication times the newer one comes first.
C12_RankOrder ==
    rankOut.done =>
        LET out == rankOut.value
        IN  /\ \A i \in 1..(Len(out) - 1) : out[i].score >= out[i + 1].score
            /\ \A i, j \in 1..Len(out) :
                  (out[i].score = out[j].score
                     /\ out[i].published_ts > out[j].published_ts) => i < j

\* Two articles with the same score came in with the older one first and left
\* with the newer one first.
C12_Witness ==
    /\ rankOut.done
    /\ \E i, j \in 1..Len(rankIn.items) :
          /\ i < j
          /\ ScoreOf(rankIn.items[i], rankIn.items) = ScoreOf(rankIn.items[j], rankIn.items)
          /\ rankIn.items[i].published_ts < rankIn.items[j].published_ts
          /\ \E m, n \in 1..Len(rankOut.value) :
                /\ m < n
                /\ rankOut.value[m].hid = rankIn.items[j].hid
                /\ rankOut.value[n].hid = rankIn.items[i].hid

\* C13: two input lists that hold the same articles in different orders are
\* ranked into the same order.
C13_OrderIndependent ==
    rankOut.done =>
        [i \in 1..Len(rankOut.value) |-> rankOut.value[i].hid]
          = [i \in 1..Len(rankOut.other) |-> rankOut.other[i].hid]

\* C14: an exception raised inside a cycle is caught at the cycle boundary and
\* the loop goes on: in News.run and in the runner's --loop, a cycle that
\* raised is followed by the start of a next cycle, and cycles start again and
\* again for ever.
C14_LoopGoesOn ==
    /\ []<>(pc = "wake")
    /\ (pc = "raised") ~> (pc = "wake")

\* A cycle of the runner's loop raised after a Poster call had succeeded.
C14_Witness == pc = "raised" /\ mode = "runner" /\ confirmed # {}

\* The quiet-hours window from QuietStart to QuietEnd, across midnight when
\* the start is the later time of day.
InQuietWindow(c) ==
    IF QuietStart > QuietEnd
    THEN c.hhmm >= QuietStart \/ c.hhmm <= QuietEnd
    ELSE c.hhmm >= QuietStart /\ c.hhmm <= QuietEnd

\* The time of a cycle that has started.
Started(c) == \E t \in CycleTimes : c.hhmm = t.hhmm /\ c.weekday = t.weekday

C16_RunnerFollowsScheduler ==
    (mode = "runner" /\ Started(cycle)) =>
        /\ InQuietWindow(cycle) => (~cycle.fetched /\ pc \in {"wake", "idle"})
        /\ (ShouldReduceFrequency(cycle) /\ pc \in {"loop", "handle", "pause"})
              => max_posts <= Max(1, MaxPerRun \div 2)

\* C17: when an interrupt has ended the process, the store on disk holds the
\* fingerprint of every article the Poster confirmed before the exit.
C17_ShutdownKeepsPosts ==
    pc = "exited" => confirmed \subseteq LoadProcessed(file).value

\* The candidate at position k was open when the batch started.
OpenAt(k) == items[k] \notin startProcessed

CalledAt(k) == \E m \in 1..Len(calls) : calls[m].at = k

\* C18: the candidates are passed to the Poster in rank order, none that was
\* open is passed over while the loop runs, and when _post_batch ends with an
\* open candidate never passed to the Poster, then the cap was reached or the
\* last Poster call was rate limited.
C18_PostingFollowsRank ==
    /\ \A m, n \in 1..Len(calls) : m < n => calls[m].at < calls[n].at
    /\ \A m \in 1..Len(calls) :
          calls[m].at \in 1..Len(items) /\ calls[m].hid = items[calls[m].at]
    /\ auto_post =>
          \A k \in 1..Len(items) : (k < idx /\ OpenAt(k)) => CalledAt(k)
    /\ (pc \in {"save", "write", "returned"}
          /\ \E k \in 1..Len(items) :
                OpenAt(k) /\ ~CalledAt(k) /\ items[k] \notin processed)
          => \/ posted >= max_posts
             \/ /\ calls # <<>>
                /\ calls[Len(calls)].at = idx
                /\ StopsCycle(PostTweet(calls[Len(calls)].resp))

\* A batch over three candidates returned after two Poster calls in rank
\* order, the third candidate left for a later cycle.
C18_Witness ==
    /\ pc = "returned"
    /\ Len(items) = MaxItems
    /\ Len(calls) = 2
    /\ calls[1].at = 1
    /\ calls[2].at = 2
    /\ OpenAt(Len(items))
    /\ items[Len(items)] \notin processed

\* The recency term of an article's score as _score_items returned it: the
\* score without the source, corroboration and keyword terms.
RecencyIn(a) ==
    LET r == CHOOSE x \in {rankOut.value[i] : i \in 1..Len(rankOut.value)} :
                 x.hid = a.hid
    IN  r.score - 12000 * SourcePriority(a.source)
        - 10000 * (CountOf(a, rankIn.items) - 1)
        - (IF IsBreaking(a) THEN 10000 ELSE 0)

RankedArticles == {rankIn.items[i] : i \in 1..Len(rankIn.items)}

\* C21: the recency term is never negative, an article published in the future
\* gets less than the recency term of an article published now, and the more
\* it lies in the future the smaller (or equal) its recency term.
C21_FutureRecencyFades ==
    rankOut.done =>
        \A a \in RankedArticles :
            /\ RecencyIn(a) >= 0
            /\ a.published_ts > ClockNow => RecencyIn(a) < DecayE4(0)
            /\ \A b \in RankedArticles :
                  (a.published_ts > ClockNow /\ b.published_ts > a.published_ts)
                      => RecencyIn(b) <= RecencyIn(a)

\* The first article among the fetched ones that has the fingerprint h.
FirstFetched(h) ==
    FetchedItems[CHOOSE i \in 1..Len(FetchedItems) :
                    /\ FetchedItems[i].hid = h
                    /\ \A j \in 1..(i - 1) : FetchedItems[j].hid # h]

\* C27: of several fetched articles with one fingerprint the Aggregator returns
\* the record fetched first (categories in the given order, feeds in list
\* order, entries in feed order), with that record's source and category.
C27_FirstOccurrenceWins ==
    fetchOut.done =>
        \A i \in 1..Len(fetchOut.value) :
            fetchOut.value[i] = FirstFetched(fetchOut.value[i].hid)

\* Two feeds delivered one fingerprint under different sources, the later one
\* with another title.
C27_Witness ==
    /\ fetchOut.done
    /\ \E i, j \in 1..Len(FetchedItems) :
          /\ i < j
          /\ FetchedItems[i].hid = FetchedItems[j].hid
          /\ FetchedItems[i].source # FetchedItems[j].source
          /\ FetchedItems[i].title # FetchedItems[j].title
          /\ \E k \in 1..Len(fetchOut.value) : fetchOut.value[k] = FetchedItems[i]

\* C28: in the list returned by _fetch_categories every entry's published_ts
\* is greater than or equal to that of the entry behind it.
C28_SortedByPublished ==
    fetchOut.done =>
        \A i \in 1..(Len(fetchOut.value) - 1) :
            fetchOut.value[i].published_ts >= fetchOut.value[i + 1].published_ts

\* The sort had to move an article: the deduped list was not in order.
C28_Witness ==
    /\ fetchOut.done
    /\ Len(fetchOut.value) >= 2
    /\ fetchOut.value # DedupeFrom(FetchedItems, {})
    /\ \E i \in 1..(Len(fetchOut.value) - 1) :
          fetchOut.value[i].published_ts > fetchOut.value[i + 1].published_ts

\* The number of articles a feed brought into the fetch.
Contribution(f) ==
    Cardinality({i \in 1..Len(FetchedItems) :
                    /\ FetchedItems[i].category = f[1]
                    /\ FetchedItems[i].source = SourceOf(f[2])})

\* How often the category occurs in the list of categories.
TimesAsked(cat) ==
    Cardinality({c \in 1..Len(fetchIn.cats) : fetchIn.cats[c] = cat})

\* C29: each feed of a category with n feeds contributes at most
\* max(1, floor(max_total / n)) articles each time the category is fetched, and
\* a feed that delivers a valid first entry contributes at least one, also when
\* max_total < n.
C29_PerFeedBudget ==
    fetchOut.done =>
        \A f \in AskedFeeds :
            LET n == Len(Feeds[f[1]])
                share == IF fetchIn.max_total \div n >= 1
                         THEN fetchIn.max_total \div n ELSE 1
                es == fetchIn.answers[f[2]].entries
            IN  /\ Contribution(f) <= TimesAsked(f[1]) * share
                /\ (~FeedFails(f) /\ es # <<>> /\ es[1].title # "" /\ es[1].link # "")
                      => Contribution(f) >= 1

\* A budget below the number of feeds: both feeds of the category contribute
\* one article, and one of them had more entries than its share.
C29_Witness ==
    /\ fetchOut.done
    /\ fetchIn.cats = <<"tech">>
    /\ fetchIn.max_total < Len(Feeds.tech)
    /\ Contribution(<<"tech", "f1">>) = 1
    /\ Contribution(<<"tech", "f2">>) = 1
    /\ Len(fetchIn.answers["f1"].entries) > 1

FirstNonEmpty(a, b, c) == IF a # "" THEN a ELSE IF b # "" THEN b ELSE c

\* C30: every returned article comes from an entry whose title and link are
\* both non-empty, its id is the first non-empty of the entry's id, link and
\* title, and fetched articles with equal ids have equal fingerprints.
C30_ValidityAndId ==
    fetchOut.done =>
        /\ \A i \in 1..Len(fetchOut.value) :
              LET o == fetchOut.value[i]
              IN  /\ o.title # "" /\ o.link # ""
                  /\ \E f \in AskedFeeds :
                        /\ ~FeedFails(f)
                        /\ f[1] = o.category
                        /\ \E k \in 1..Len(fetchIn.answers[f[2]].entries) :
                              LET e == fetchIn.answers[f[2]].entries[k]
                              IN  /\ e.title = o.title /\ e.link = o.link
                                  /\ o.id = FirstNonEmpty(e.id, e.link, e.title)
        /\ \A i, j \in 1..Len(FetchedItems) :
              FetchedItems[i].id = FetchedItems[j].id
                  => FetchedItems[i].hid = FetchedItems[j].hid

\* A feed delivered an entry without a link inside its share and an entry
\* without an id: the first is not returned, the second has its link as id.
C30_Witness ==
    /\ fetchOut.done
    /\ \E f \in AskedFeeds :
          /\ ~FeedFails(f)
          /\ \E k \in 1..Len(fetchIn.answers[f[2]].entries) :
                /\ k <= fetchIn.max_total \div Len(Feeds[f[1]])
                /\ fetchIn.answers[f[2]].entries[k].link = ""
    /\ \E i \in 1..Len(fetchOut.value) :
          fetchOut.value[i].id = fetchOut.value[i].link
    /\ \E i, j \in 1..Len(FetchedItems) :
          i # j /\ FetchedItems[i].id = FetchedItems[j].id

\* The model gave the Composer nothing to use: there is no model with a query
\* method, query raised, or the text it returned is empty or blank.
ComposerFailed(c) ==
    env.model # "query" \/ c.ans.raises \/ c.ans.value \in {"", "  "}

\* C22: a candidate that is not stored yet is handed to the Poster whatever the
\* model does (only the construction of the Poster itself can end the batch
\* there), in dry-run it is marked as usual, and when the Composer got nothing
\* from the model the posted text is the raw title with the tags and the link.
C22_ComposerFallback ==
    [][(InBody /\ ~AlreadyProcessed(items[idx])) =>
          IF auto_post
          THEN \/ twitter = "None" /\ pc' = "raised" /\ calls' = calls
               \/ /\ Len(calls') = Len(calls) + 1
                  /\ pc' = "handle"
                  /\ LET c == calls'[Len(calls')]
                         a == ArticleOf(items[idx])
                     IN  /\ c.hid = items[idx]
                         /\ ComposerFailed(c) =>
                               c.tweet = <<a.title, TagsOf(a.category), a.link>>
          ELSE processed' = processed \cup {items[idx]} /\ pc' = "loop"]_vars

\* The client exists after an earlier post; the query for the next candidate
\* raised and the candidate went to the Poster with its title.
C22_Witness ==
    /\ pc = "handle"
    /\ env.model = "query"
    /\ confirmed # {}
    /\ calls # <<>>
    /\ calls[Len(calls)].ans.raises
    /\ calls[Len(calls)].hid \notin confirmed
    /\ calls[Len(calls)].tweet[1] = ArticleOf(calls[Len(calls)].hid).title

\* C24: with auto-post on and no posting credentials the loop of News.run runs
\* no cycle that fetches the feeds.
C24_NoCredentialsIsFatal ==
    (mode = "scheduler" /\ pc # "boot" /\ auto_post /\ ~env.credentials)
        => ~cycle.fetched

\* The order of the steps of a cycle: the Poster is called only in a cycle
\* that has fetched and ranked; the file changes only in _save_processed,
\* which starts when the for loop is left and is followed by no further post
\* attempt; _post_batch returns only with the whole processed set in the file
\* and is followed by the sleep; a cycle starts only when the sleep is over,
\* and fetches only then.
StepOrder ==
    /\ (calls' # calls /\ calls' # <<>>) => cycle.fetched
    /\ file' # file => pc \in {"save", "write"}
    /\ (pc' = "save" /\ pc # "save") => pc \in {"loop", "handle"}
    /\ pc \in {"save", "write", "returned"} => (calls' = calls \/ calls' = <<>>)
    /\ (pc' = "returned" /\ pc # "returned") =>
          pc = "write" /\ file' = FileOf(JsonDumps(processed))
    /\ pc = "returned" => pc' = "idle" /\ file' = file
    /\ (pc' = "wake" /\ pc # "wake") => pc = "idle"
    /\ (cycle'.fetched /\ ~cycle.fetched) => pc = "wake"

\* The cycle goes to its sleep out of a batch.
BatchToSleep == pc' = "idle" /\ pc \notin {"idle", "boot"} /\ items # <<>>

InsideWindow(start, end, hhmm) ==
    IF start < end
    THEN start <= hhmm /\ hhmm <= end
    ELSE start <= hhmm \/ hhmm <= end

\* C26: for every window, crossing midnight or not, is_quiet_hour returns true
\* exactly when the time of day lies inside the window.
C26_QuietExactlyInWindow ==
    quiet.done =>
        (quiet.result <=> InsideWindow(quiet.start, quiet.end, quiet.hhmm))

\* C23: a one-shot run that ended with a logged exception exits with a status
\* other than zero; one that fetched nothing exits with status zero and has
\* made no call of the Poster nor constructed it.
C23_OneShotExitStatus ==
    exitStatus.done =>
        /\ exitStatus.logged => exitStatus.status # 0
        /\ (~exitStatus.logged /\ items = <<>>) =>
              exitStatus.status = 0 /\ calls = <<>> /\ twitter = "None"

\* The record _score_items returned for the article.
ScoredAs(a) ==
    CHOOSE x \in {rankOut.value[i] : i \in 1..Len(rankOut.value)} : x.hid = a.hid

\* The corroboration term of the returned score: the score without the
\* source, keyword and recency terms.
CorroborationIn(a) ==
    ScoredAs(a).score - 12000 * SourcePriority(a.source)
    - (IF ScoredAs(a).is_breaking THEN 10000 ELSE 0) - DecayE4(AgeOf(a))

\* A title in lower case with its punctuation taken out and its whitespace
\* collapsed.
StrippedTitle(t) ==
    CASE t = "Chip surge" -> "chip surge"
      [] t = "CHIP surge!" -> "chip surge"
      [] t = "U.S. rates" -> "us rates"
      [] t = "US rates" -> "us rates"
      [] t = "Surge alert" -> "surge alert"
      [] OTHER -> t

\* C31 as stated: with c the number of ranked items whose title, lowercased,
\* without punctuation and with whitespace collapsed, equals the article's,
\* the corroboration term is w_multi * (c - 1) and multi_appear is c.
C31_CorroborationStripped ==
    rankOut.done =>
        \A a \in RankedArticles :
            LET c == Cardinality({i \in 1..Len(rankIn.items) :
                        StrippedTitle(rankIn.items[i].title) = StrippedTitle(a.title)})
            IN  CorroborationIn(a) = 10000 * (c - 1) /\ ScoredAs(a).multi_appear = c

\* C31, amended: with c the number of ranked items whose title, lowercased,
\* with every run of characters other than a-z, 0-9 and whitespace replaced by
\* a blank and whitespace collapsed and trimmed, equals the article's, the
\* corroboration term is w_multi * (c - 1), zero for a title that is alone,
\* and multi_appear is c.
C31_CorroborationBlanked ==
    rankOut.done =>
        \A a \in RankedArticles :
            LET c == Cardinality({b \in RankedArticles :
                        NormTitle(b.title) = NormTitle(a.title)})
            IN  /\ CorroborationIn(a) = 10000 * (c - 1)
                /\ ScoredAs(a).multi_appear = c
                /\ c = 1 => CorroborationIn(a) = 0

\* Two titles that differ in case and punctuation were ranked together with a
\* title that is alone.
C31_Witness ==
    /\ rankOut.done
    /\ \E a, b, d \in RankedArticles :
          /\ a.title # b.title /\ NormTitle(a.title) = NormTitle(b.title)
          /\ ScoredAs(a).multi_appear = 2
          /\ ScoredAs(d).multi_appear = 1

\* The keyword term of the returned score: the score without the source,
\* corroboration and recency terms.
KeywordIn(a) ==
    ScoredAs(a).score - 12000 * SourcePriority(a.source)
    - 10000 * (ScoredAs(a).multi_appear - 1) - DecayE4(AgeOf(a))

\* C32: the keyword term is the fixed bonus w_kw when the title contains one
\* or several of the breaking keywords and zero when it contains no keyword
\* at all; a title that contains crypto keywords only gets the bonus in the
\* category crypto and zero in every other category; is_breaking says which.
C32_KeywordTermBoolean ==
    rankOut.done =>
        \A a \in RankedArticles :
            /\ GeneralMatches(a.title) >= 1 => KeywordIn(a) = 10000
            /\ (GeneralMatches(a.title) = 0 /\ CryptoMatches(a.title) = 0)
                  => KeywordIn(a) = 0
            /\ (GeneralMatches(a.title) = 0 /\ CryptoMatches(a.title) >= 1)
                  => KeywordIn(a) = IF a.category = "crypto" THEN 10000 ELSE 0
            /\ ScoredAs(a).is_breaking <=> KeywordIn(a) = 10000

\* A title with two keywords, and a title with a crypto keyword only, once in
\* the category crypto and once in another category, were ranked together.
C32_Witness ==
    /\ rankOut.done
    /\ \E a, b, d \in RankedArticles :
          /\ GeneralMatches(a.title) = 2
          /\ GeneralMatches(b.title) = 0 /\ CryptoMatches(b.title) = 1
          /\ b.category = "crypto" /\ ScoredAs(b).is_breaking
          /\ d.title = b.title /\ d.category # "crypto" /\ ~ScoredAs(d).is_breaking

\* A breaking story that appears twice in the pool, next to a plain story of
\* the same source tier and age that appears once.
CorroboratedAndPlain(a, b) ==
    /\ SourcePriority(a.source) = SourcePriority(b.source)
    /\ AgeOf(a) = AgeOf(b)
    /\ GeneralMatches(a.title) >= 1
    /\ ScoredAs(a).multi_appear = 2
    /\ GeneralMatches(b.title) = 0
    /\ b.category # "crypto" \/ CryptoMatches(b.title) = 0
    /\ ScoredAs(b).multi_appear = 1

C34_ReducedCap ==
    (mode = "scheduler" /\ items # <<>>) =>
        /\ max_posts = IF cycle.weekday >= 5
                       THEN (IF env.max_per_update \div 2 >= 1
                             THEN env.max_per_update \div 2 ELSE 1)
                       ELSE env.max_per_update
        /\ max_posts >= 1
        /\ max_posts <= env.max_per_update

\* A cycle starts only when a sleep is over, and every end of a cycle, be it
\* a returned batch, an exception, an empty fetch or a skipped cycle, is the
\* start of a sleep.
CyclesApart ==
    /\ (pc' = "wake" /\ pc # "wake") => pc = "idle"
    /\ pc \in {"returned", "raised"} => pc' = "idle"
    /\ (pc = "wake" /\ pc' # "wake") => pc' \in {"idle", "loop"}

\* The sleep between two cycles is over.
SleepOver == pc = "idle" /\ pc' = "wake" /\ cycle # NoCycle

\* C39 as stated: in both loops every cycle is followed by a sleep of
\* max(30, configured interval) seconds before the next cycle starts.
C39_SleepIsMaxOfInterval ==
    [][/\ CyclesApart
       /\ SleepOver =>
             cycle'.slept = IF env.update_interval > 30
                            THEN env.update_interval ELSE 30]_vars

\* C39, amended: every cycle is followed by a sleep of at least 30 seconds
\* before the next cycle starts: max(30, interval) seconds, where News.run
\* takes 1800 for an interval configured as 0.
C39_SleepAtLeastMinimum ==
    [][/\ CyclesApart
       /\ SleepOver =>
             /\ cycle'.slept >= 30
             /\ cycle'.slept =
                   IF mode = "scheduler" /\ env.update_interval = 0 THEN 1800
                   ELSE IF env.update_interval > 30
                        THEN env.update_interval ELSE 30]_vars

\* A cycle of News.run has started after a sleep of half an hour under an
\* interval of 0.
C39_Witness ==
    /\ pc = "wake"
    /\ mode = "scheduler"
    /\ env.update_interval = 0
    /\ cycle.slept = DefaultInterval

\* C35: the Poster client is constructed in a post attempt only: not when News
\* is constructed, not without a candidate that is not stored yet, not in
\* dry-run; a News instance that has a client constructs no second one, and
\* the client goes only with its instance (the runner makes a new one in
\* each cycle).
C35_LazyPoster ==
    [][/\ pc = "boot" => twitter' = "None"
       /\ (~auto_post /\ pc # "boot") => twitter' = "None"
       /\ (calls' # calls /\ calls' # <<>>) =>
             /\ twitter' = "client"
             /\ calls'[Len(calls')].built <=> twitter = "None"
       /\ (twitter = "None" /\ twitter' = "client") =>
             /\ InBody /\ auto_post /\ items[idx] \notin processed
             /\ Len(calls') = Len(calls) + 1
             /\ calls'[Len(calls')].hid = items[idx]
             /\ calls'[Len(calls')].built
       /\ (twitter = "client" /\ twitter' = "None") =>
             mode = "runner" /\ pc = "wake"]_vars

\* A later cycle of News.run posts with the client of an earlier cycle.
C35_Witness ==
    /\ mode = "scheduler"
    /\ pc = "handle"
    /\ confirmed # {}
    /\ calls # <<>>
    /\ ~calls[Len(calls)].built
    /\ calls[Len(calls)].hid \notin confirmed

\* C36: a fingerprint handed to the Poster was not handed to it before in the
\* same _post_batch, also when the list holds it several times, and is not in
\* the processed set; a fingerprint whose post succeeded or failed for good
\* enters the processed set, which loses nothing, so it is not handed to the
\* Poster again in a later cycle.
C36_OneCallPerFingerprint ==
    [][/\ (calls' # calls /\ calls' # <<>>) =>
             LET c == calls'[Len(calls')]
             IN  /\ \A k \in 1..Len(calls) : calls[k].hid # c.hid
                 /\ c.hid \notin processed
                 /\ c.hid \notin confirmed
       /\ (pc = "handle" /\ (outcome.ok \/ outcome.retry_after = None)) =>
             items[idx] \in processed'
       /\ processed \subseteq processed']_vars

\* The list held a fingerprint twice: it was posted at its first place and
\* passed over at its second.
C36_Witness ==
    /\ Len(items) = 2
    /\ items[1] = items[2]
    /\ idx > 2
    /\ Len(calls) = 1
    /\ Created(calls[1])

\* C37: no step removes a fingerprint from the processed set; a fingerprint
\* added during a cycle is the one of the candidate at hand, which was handled
\* in dry-run, posted, or refused by the platform with an error that is no
\* rate limit; and when _post_batch returns, the file holds the set in memory,
\* which contains what was loaded at startup.
C37_ProcessedOnlyGrows ==
    [][/\ processed \subseteq processed'
       /\ (processed' # processed /\ pc # "boot") =>
             /\ idx \in 1..Len(items)
             /\ processed' = processed \cup {items[idx]}
             /\ \/ InBody /\ ~auto_post
                \/ /\ pc = "handle"
                   /\ calls[Len(calls)].hid = items[idx]
                   /\ calls[Len(calls)].resp.status \in {"created", "error"}
       /\ pc' = "returned" =>
             /\ LoadProcessed(file').value = processed'
             /\ loaded \subseteq processed']_vars

\* Times the fingerprint h stands in a list of articles.
TimesIn(h, l) == Cardinality({i \in 1..Len(l) : l[i].hid = h})

\* Two lists hold the same fingerprints, each as often.
SameFingerprints(out, in) ==
    /\ Len(out) = Len(in)
    /\ \A i \in 1..Len(in) : TimesIn(in[i].hid, out) = TimesIn(in[i].hid, in)
    /\ \A i \in 1..Len(out) : TimesIn(out[i].hid, in) > 0

\* C38: the list _score_items returns holds the fingerprints of its input,
\* each as often as the input does; the input list and its records are as
\* they were before the call; and the processed set and its file are not
\* touched by the call.
C38_RankingKeepsCandidates ==
    [][(rankOut'.done /\ ~rankOut.done) =>
          /\ SameFingerprints(rankOut'.value, rankIn.items)
          /\ SameFingerprints(rankOut'.other, rankIn.shuffled)
          /\ rankIn' = rankIn
          /\ processed' = processed
          /\ file' = file]_vars

\* Three articles were ranked into another order than they came in, two of
\* them telling the same story.
C38_Witness ==
    /\ rankOut.done
    /\ Len(rankIn.items) = MaxRank
    /\ rankOut.value[1].hid # rankIn.items[1].hid
    /\ \E i \in 1..Len(rankOut.value) : rankOut.value[i].multi_appear > 1

====
